---- MODULE Spec2Model ----
(***************************************************************************)
(* A model of leptos_dom/src/child.rs: the Child enum, its string          *)
(* serialization (as_child_string, the server-side build), its equality    *)
(* (impl PartialEq) and the IntoChild conversions.                         *)
(*                                                                         *)
(* Strings are sequences of one-character strings.  A Child value lives in *)
(* a holder (a program variable: it has an address); the payload of        *)
(* Child::Fn is an Rc, modelled as the index of a closure cell in `heap`.  *)
(***************************************************************************)
EXTENDS Integers, Sequences, FiniteSets

VARIABLES holders, heap, last

vars == <<holders, heap, last>>

\* ------------------------------------------------------------------ bounds
MaxHolders == 2
MaxCells == 3
MaxCalls == 3
MaxConvHolders == 2
MaxEqHolders == 3

\* ------------------------------------------------------- the Child variants
Null == [tag |-> "Null"]
Text(s) == [tag |-> "Text", text |-> s]
Fn(c) == [tag |-> "Fn", cell |-> c]
Node(n) == [tag |-> "Node", node |-> n]
Nodes(ns) == [tag |-> "Nodes", nodes |-> ns]

\* ------------------------------------------- source values given to into_child
UnitSrc == [kind |-> "unit"]
StringSrc(s) == [kind |-> "String", s |-> s]
StrSrc(s) == [kind |-> "str", s |-> s]
IntSrc(ty, v) == [kind |-> "int", ty |-> ty, v |-> v]
CharSrc(c) == [kind |-> "char", c |-> c]
BoolSrc(b) == [kind |-> "bool", b |-> b]
VecSrc(ns) == [kind |-> "Vec", ns |-> ns]
NoneSrc == [kind |-> "None"]
SomeSrc(x) == [kind |-> "Some", val |-> x]
FnSrc(d) == [kind |-> "FnMut", def |-> d]
ChildSrc(c) == [kind |-> "Child", child |-> c]

\* ------------------------------------------------ to_string of the primitives
DigitChar == <<"0", "1", "2", "3", "4", "5", "6", "7", "8", "9">>

RECURSIVE Digits(_)
Digits(n) ==
    IF n < 10 THEN <<DigitChar[n + 1]>>
    ELSE Digits(n \div 10) \o <<DigitChar[(n % 10) + 1]>>

\* IntToString with the sign lost
IntToStringUnsigned(v) == IF v < 0 THEN Digits(0 - v) ELSE Digits(v)

IntToString(v) == IF v < 0 THEN <<"-">> \o Digits(0 - v) ELSE Digits(v)

BoolToString(b) == IF b THEN <<"t", "r", "u", "e">> ELSE <<"f", "a", "l", "s", "e">>

\* a borrowed string is copied character by character
StrToString(s) == [i \in 1..Len(s) |-> s[i]]

ToString(x) ==
    CASE x.kind = "int" -> IntToString(x.v)
      [] x.kind = "bool" -> BoolToString(x.b)
      [] x.kind = "char" -> <<x.c>>
      [] x.kind = "str" -> StrToString(x.s)

\* Node is a string in the build that has as_child_string
NodeToString(node) == StrToString(node)

\* Collect with the nodes taken from the back
RECURSIVE CollectReversed(_)
CollectReversed(nodes) ==
    IF nodes = <<>> THEN <<>>
    ELSE CollectReversed(Tail(nodes)) \o Head(nodes)

RECURSIVE Collect(_)
Collect(nodes) ==
    IF nodes = <<>> THEN <<>>
    ELSE Head(nodes) \o Collect(Tail(nodes))

\* ---------------------------------------------------- the callables (inputs)
\* What the j-th call of a callable returns, and what the call does before
\* returning: "self" means it serializes a Child that shares its own cell.
FnDefs == {"hi", "counter", "nested", "deep", "reenter", "signal", "node"}

Behaviour(d, j) ==
    CASE d = "hi" -> [effect |-> "none", ret |-> StringSrc(<<"h", "i">>)]
      [] d = "counter" -> [effect |-> "none", ret |-> IntSrc("i32", j)]
      [] d = "nested" -> [effect |-> "none", ret |-> FnSrc("hi")]
      [] d = "deep" -> [effect |-> "none", ret |-> SomeSrc(FnSrc("nested"))]
      [] d = "reenter" ->
            [effect |-> IF j = 1 THEN "self" ELSE "none", ret |-> StrSrc(<<"x">>)]
      [] d = "node" -> [effect |-> "none", ret |-> ChildSrc(Node(<<"l", "i">>))]
      [] d = "signal" ->
            [effect |-> "none",
             ret |-> IF j % 2 = 1 THEN NoneSrc ELSE VecSrc(<<<<"a">>, <<"b">>>>)]

NewCell(d) == [def |-> d, calls |-> 0, borrowed |-> FALSE, invoked |-> 0, log |-> <<>>]

\* ------------------------------------------------------------- IntoChild
IntoChildChild(x, h) == [child |-> x.child, heap |-> h]

IntoChildUnit(x, h) == [child |-> Null, heap |-> h]

IntoChildString(x, h) == [child |-> Text(x.s), heap |-> h]

\* IntoChildFn calling the callable once while wrapping it
IntoChildFnEager(x, h) ==
    [child |-> Fn(Len(h) + 1),
     heap |-> Append(h, [NewCell(x.def) EXCEPT !.calls = 1])]

IntoChildFn(x, h) ==
    [child |-> Fn(Len(h) + 1), heap |-> Append(h, NewCell(x.def))]

IntoChildVec(x, h) == [child |-> Nodes(x.ns), heap |-> h]

IntoChildPrim(x, h) == [child |-> Text(ToString(x)), heap |-> h]

RECURSIVE IntoChild(_, _)

\* IntoChildOption dropping the value of Some
IntoChildOptionNull(x, h) == [child |-> Null, heap |-> h]

IntoChildOption(x, h) ==
    IF x.kind = "Some" THEN IntoChild(x.val, h)
    ELSE [child |-> Null, heap |-> h]

IntoChild(x, h) ==
    CASE x.kind = "Child" -> IntoChildChild(x, h)
      [] x.kind = "unit" -> IntoChildUnit(x, h)
      [] x.kind = "String" -> IntoChildString(x, h)
      [] x.kind = "FnMut" -> IntoChildFn(x, h)
      [] x.kind \in {"Some", "None"} -> IntoChildOption(x, h)
      [] x.kind = "Vec" -> IntoChildVec(x, h)
      [] OTHER -> IntoChildPrim(x, h)

\* ------------------------------------------- invoking a closure, serializing
RECURSIVE CallCell(_, _, _), AsChildString(_, _, _)

\* modified_fn calling the callable and dropping what it returned
modified_fn_discard(c, h) ==
    [ok |-> TRUE, child |-> Null, heap |-> [h EXCEPT ![c].calls = @ + 1]]

\* The closure built at line 101: move || (self)().into_child(cx), run on the
\* cell c whose borrow is held.  The captured callable's state is its number
\* of calls so far.
modified_fn(c, h) ==
    LET j == h[c].calls + 1
        step == Behaviour(h[c].def, j)
        h2 == [h EXCEPT ![c].calls = j]
        e == IF step.effect = "self"
             THEN AsChildString(Fn(c), h2, 0)
             ELSE [ok |-> TRUE, str |-> <<>>, heap |-> h2, n |-> 0]
    IN  IF ~e.ok THEN [ok |-> FALSE, child |-> Null, heap |-> e.heap]
        ELSE LET r == IntoChild(step.ret, e.heap)
             IN  [ok |-> TRUE, child |-> r.child, heap |-> r.heap]

\* (f.borrow_mut())(): RefCell::borrow_mut panics when the cell is already
\* borrowed; the borrow is released when the call returns or unwinds.
\* `by` is the holder through which the call was made (0: a link of a chain).
CallCell(c, h, by) ==
    IF h[c].borrowed THEN [ok |-> FALSE, child |-> Null, heap |-> h]
    ELSE LET h1 == [h EXCEPT ![c].borrowed = TRUE, ![c].invoked = @ + 1]
             r == modified_fn(c, h1)
         IN  IF ~r.ok
             THEN [r EXCEPT !.heap = [r.heap EXCEPT ![c].borrowed = FALSE]]
             ELSE [r EXCEPT !.heap =
                     [r.heap EXCEPT ![c].borrowed = FALSE,
                                    ![c].log = Append(@, [by |-> by, child |-> r.child])]]

\* WhileLetFn as an `if`: a second reactive link is not invoked
WhileLetFnOnce(value, h, n) ==
    IF value.tag = "Fn" THEN [ok |-> TRUE, str |-> <<>>, heap |-> h, n |-> n]
    ELSE [AsChildString(value, h, 0) EXCEPT !.n = n]

\* while let Child::Fn(f) = value { value = (f.borrow_mut())(); }
\* value.as_child_string()
RECURSIVE WhileLetFn(_, _, _)
WhileLetFn(value, h, n) ==
    IF value.tag = "Fn"
    THEN LET r == CallCell(value.cell, h, 0)
         IN  IF ~r.ok THEN [ok |-> FALSE, str |-> <<>>, heap |-> r.heap, n |-> n]
             ELSE WhileLetFn(r.child, r.heap, n + 1)
    ELSE [AsChildString(value, h, 0) EXCEPT !.n = n]

AsChildString(self, h, by) ==
    CASE self.tag = "Null" -> [ok |-> TRUE, str |-> <<>>, heap |-> h, n |-> 0]
      [] self.tag = "Text" -> [ok |-> TRUE, str |-> StrToString(self.text), heap |-> h, n |-> 0]
      [] self.tag = "Fn" ->
            LET r == CallCell(self.cell, h, by)
            IN  IF ~r.ok THEN [ok |-> FALSE, str |-> <<>>, heap |-> r.heap, n |-> 0]
                ELSE WhileLetFn(r.child, r.heap, 1)
      [] self.tag = "Node" -> [ok |-> TRUE, str |-> NodeToString(self.node), heap |-> h, n |-> 0]
      [] self.tag = "Nodes" -> [ok |-> TRUE, str |-> Collect(self.nodes), heap |-> h, n |-> 0]

\* ------------------------------------------------------------- PartialEq
\* std::ptr::eq(l0, r0) on two &Rc<..>: the addresses of the two Rc handles,
\* that is, of the Child values that hold them.
PtrEq(selfAddr, otherAddr) == selfAddr = otherAddr

\* Eq comparing the discriminants alone
EqDiscriminant(selfAddr, otherAddr) ==
    holders[selfAddr].child.tag = holders[otherAddr].child.tag

Eq(selfAddr, otherAddr) ==
    LET l == holders[selfAddr].child
        r == holders[otherAddr].child
    IN  CASE l.tag = "Text" /\ r.tag = "Text" -> l.text = r.text
          [] l.tag = "Fn" /\ r.tag = "Fn" -> PtrEq(selfAddr, otherAddr)
          [] l.tag = "Node" /\ r.tag = "Node" -> l.node = r.node
          [] l.tag = "Nodes" /\ r.tag = "Nodes" -> l.nodes = r.nodes
          [] OTHER -> l.tag = r.tag

\* derive(Clone): the payload is cloned; cloning an Rc shares the cell
Clone(child) == child

\* ---------------------------------------------------------------- inputs
Chars == {"a", "5"}

Strs == {<<>>, <<"5">>, <<"h", "i">>}

NodeLists == {<<>>, <<<<"a">>>>, <<<<"a">>, <<"b">>, <<"c">>>>, <<<<"b">>, <<"a">>>>}

IntTypes ==
    {"usize", "u8", "u16", "u32", "u64", "u128",
     "isize", "i8", "i16", "i32", "i64", "i128"}

Signed(ty) == ty \in {"isize", "i8", "i16", "i32", "i64", "i128"}

SampleInts == {-32768, -128, -1, 0, 5, 42, 127, 255, 65535}

\* the values of SampleInts that the type holds (types wider than 16 bits
\* hold every sample of their sign)
InRange(ty, v) ==
    CASE ty = "u8" -> 0 <= v /\ v <= 255
      [] ty = "i8" -> -128 <= v /\ v <= 127
      [] ty = "u16" -> 0 <= v /\ v <= 65535
      [] ty = "i16" -> -32768 <= v /\ v <= 32767
      [] OTHER -> Signed(ty) \/ 0 <= v

PrimInputs ==
    {IntSrc(p[1], p[2]) : p \in {q \in IntTypes \X SampleInts : InRange(q[1], q[2])}}
        \cup {CharSrc(c) : c \in Chars}
        \cup {BoolSrc(b) : b \in BOOLEAN}
        \cup {StrSrc(s) : s \in Strs}

DataInputs ==
    {UnitSrc} \cup {StringSrc(s) : s \in Strs} \cup {VecSrc(ns) : ns \in NodeLists}
        \cup {ChildSrc(Node(n)) : n \in {<<"a">>, <<"b">>}}
        \cup {ChildSrc(Text(<<>>)), ChildSrc(Null), ChildSrc(Nodes(<<>>))}

FnInputs == {FnSrc(d) : d \in FnDefs}

\* Option<T>
Optional(S) == {NoneSrc} \cup {SomeSrc(x) : x \in S}

\* the inputs of the conversions: every kind of value, Option<T> of it, and
\* nested options
ConvInputs ==
    PrimInputs \cup DataInputs \cup FnInputs
        \cup Optional(PrimInputs \cup DataInputs \cup FnInputs)
        \cup {SomeSrc(NoneSrc), SomeSrc(SomeSrc(StringSrc(<<"h", "i">>))),
              SomeSrc(SomeSrc(FnSrc("hi")))}

\* the inputs of the reactive runs: the callables and two plain values
Inputs ==
    FnInputs \cup {SomeSrc(FnSrc("counter")), NoneSrc, StringSrc(<<"5">>)}

\* the inputs of the comparisons
EqInputs ==
    DataInputs \cup {IntSrc("i32", 5), StrSrc(<<"5">>), FnSrc("hi"), FnSrc("counter")}

\* --------------------------------------------------------------- the state
NoOp ==
    [op |-> "init", a |-> 0, b |-> 0, input |-> UnitSrc, ok |-> TRUE,
     child |-> Null, str |-> <<>>, n |-> 0, eq |-> FALSE, pre |-> <<>>]

Init ==
    /\ holders = <<>>
    /\ heap = <<>>
    /\ last = NoOp

InBounds(h) ==
    /\ Len(h) <= MaxCells
    /\ \A c \in 1..Len(h) : h[c].calls <= MaxCalls

\* let child = x.into_child(cx);
Convert(x, maxHolders) ==
    /\ last.ok
    /\ Len(holders) < maxHolders
    /\ LET r == IntoChild(x, heap)
           a == Len(holders) + 1
       IN  /\ InBounds(r.heap)
           /\ holders' = Append(holders, [child |-> r.child, src |-> a])
           /\ heap' = r.heap
           /\ last' = [NoOp EXCEPT !.op = "into_child", !.a = a, !.input = x,
                                   !.child = r.child, !.pre = heap]

\* let child = holders[i].clone().into_child(cx), possibly wrapped in Some:
\* the Child -> Child rule
ConvertChild(i, wrap) ==
    /\ last.ok
    /\ Len(holders) < MaxHolders
    /\ LET c == ChildSrc(Clone(holders[i].child))
           x == IF wrap THEN SomeSrc(c) ELSE c
           r == IntoChild(x, heap)
           a == Len(holders) + 1
       IN  /\ InBounds(r.heap)
           /\ holders' = Append(holders, [child |-> r.child, src |-> holders[i].src])
           /\ heap' = r.heap
           /\ last' = [NoOp EXCEPT !.op = "into_child", !.a = a, !.b = i, !.input = x,
                                   !.child = r.child, !.pre = heap]

\* CloneChild copying the closure cell with its captured state
CloneChildDeep(i, maxHolders) ==
    /\ last.ok
    /\ Len(holders) < maxHolders
    /\ LET a == Len(holders) + 1
           c == holders[i].child
       IN  IF c.tag = "Fn"
           THEN /\ Len(heap) < MaxCells
                /\ heap' = Append(heap, heap[c.cell])
                /\ holders' = Append(holders, [child |-> Fn(Len(heap) + 1),
                                               src |-> holders[i].src])
                /\ last' = [NoOp EXCEPT !.op = "clone", !.a = a, !.b = i,
                                        !.child = Fn(Len(heap) + 1), !.pre = heap]
           ELSE /\ heap' = heap
                /\ holders' = Append(holders, [child |-> c, src |-> holders[i].src])
                /\ last' = [NoOp EXCEPT !.op = "clone", !.a = a, !.b = i,
                                        !.child = c, !.pre = heap]

\* let child = holders[i].clone();
CloneChild(i, maxHolders) ==
    /\ last.ok
    /\ Len(holders) < maxHolders
    /\ LET a == Len(holders) + 1
       IN  /\ holders' = Append(holders, [child |-> Clone(holders[i].child),
                                          src |-> holders[i].src])
           /\ last' = [NoOp EXCEPT !.op = "clone", !.a = a, !.b = i,
                                   !.child = holders[i].child, !.pre = heap]
    /\ UNCHANGED heap

\* if let Child::Fn(f) = &holders[i] { (f.borrow_mut())() }: what the
\* rendering machinery does with a reactive child
Invoke(i) ==
    /\ last.ok
    /\ holders[i].child.tag = "Fn"
    /\ LET r == CallCell(holders[i].child.cell, heap, i)
       IN  /\ InBounds(r.heap)
           /\ heap' = r.heap
           /\ last' = [NoOp EXCEPT !.op = "invoke", !.a = i, !.ok = r.ok,
                                   !.child = r.child, !.pre = heap]
    /\ UNCHANGED holders

\* holders[i].as_child_string()
Serialize(i) ==
    /\ last.ok
    /\ LET r == AsChildString(holders[i].child, heap, i)
       IN  /\ InBounds(r.heap)
           /\ heap' = r.heap
           /\ last' = [NoOp EXCEPT !.op = "as_child_string", !.a = i, !.ok = r.ok,
                                   !.child = holders[i].child, !.str = r.str,
                                   !.n = r.n, !.pre = heap]
    /\ UNCHANGED holders

\* holders[i] == holders[j]
Compare(i, j) ==
    /\ last.ok
    /\ last' = [NoOp EXCEPT !.op = "eq", !.a = i, !.b = j, !.eq = Eq(i, j),
                            !.pre = heap]
    /\ UNCHANGED <<holders, heap>>

\* Reactive children: converted, cloned, invoked and serialized.
Next ==
    \/ \E x \in Inputs : Convert(x, MaxHolders)
    \/ \E i \in 1..Len(holders), wrap \in BOOLEAN : ConvertChild(i, wrap)
    \/ \E i \in 1..Len(holders) : CloneChild(i, MaxHolders)
    \/ \E i \in 1..Len(holders) : Invoke(i)
    \/ \E i \in 1..Len(holders) : Serialize(i)

Spec == Init /\ [][Next]_vars

\* Conversion and serialization of every kind of input.
NextConv ==
    \/ \E x \in ConvInputs : Convert(x, MaxConvHolders)
    \/ \E i \in 1..Len(holders) : Serialize(i)

SpecConv == Init /\ [][NextConv]_vars

\* Children converted, cloned and compared.
NextEq ==
    \/ \E x \in EqInputs : Convert(x, MaxEqHolders)
    \/ \E i \in 1..Len(holders) : CloneChild(i, MaxEqHolders)
    \/ \E i \in 1..Len(holders), j \in 1..Len(holders) : Compare(i, j)

SpecEq == Init /\ [][NextEq]_vars

\* ------------------------------------------------ what the claims refer to
Cells == 1..Len(heap)

Held == 1..Len(holders)

IsFn(i) == holders[i].child.tag = "Fn"

\* the string a source value finally stands for, by the rules of the
\* conversions; a callable stands for what its first call returns
RECURSIVE Denote(_)
Denote(x) ==
    CASE x.kind \in {"unit", "None"} -> <<>>
      [] x.kind = "Some" -> Denote(x.val)
      [] x.kind \in {"String", "str"} -> x.s
      [] x.kind = "char" -> <<x.c>>
      [] x.kind = "bool" -> IF x.b THEN <<"t", "r", "u", "e">> ELSE <<"f", "a", "l", "s", "e">>
      [] x.kind = "int" -> IntToString(x.v)
      [] x.kind = "Vec" -> Collect(x.ns)
      [] x.kind = "FnMut" -> Denote(Behaviour(x.def, 1).ret)
      [] x.kind = "Child" ->
            CASE x.child.tag = "Null" -> <<>>
              [] x.child.tag = "Text" -> x.child.text
              [] x.child.tag = "Node" -> x.child.node
              [] x.child.tag = "Nodes" -> Collect(x.child.nodes)

\* the number of reactive links a source value converts to
RECURSIVE Depth(_)
Depth(x) ==
    CASE x.kind = "Some" -> Depth(x.val)
      [] x.kind = "FnMut" -> 1 + Depth(Behaviour(x.def, 1).ret)
      [] OTHER -> 0

\* what the call of cell c made in the pre-state of the last operation returned
LastRet(c) == Behaviour(last.pre[c].def, last.pre[c].calls + 1).ret

\* C1: two reactive Child values are equal iff they share the closure cell.
ReactiveEqIsClosureIdentity ==
    \A i \in Held, j \in Held :
        (IsFn(i) /\ IsFn(j)) =>
            (Eq(i, j) <=> holders[i].child.cell = holders[j].child.cell)

\* C2: as_child_string of a reactive Child invokes closures until the first
\* non-reactive value and returns that value's serialization, one invocation
\* per link of the chain.
ReactiveSerializesTerminal ==
    (last.op = "as_child_string" /\ last.ok /\ last.child.tag = "Fn") =>
        /\ last.str = Denote(LastRet(last.child.cell))
        /\ last.n = 1 + Depth(LastRet(last.child.cell))

ReactiveSerializesTerminalWitness ==
    /\ last.op = "as_child_string"
    /\ last.ok
    /\ last.child.tag = "Fn"
    /\ last.n = 3
    /\ last.str = <<"h", "i">>

\* C3: into_child of a callable is reactive, one invocation of its closure
\* yields into_child of what the callable returned, and serializing it gives
\* the serialization of into_child of what the callable returned.
ReactiveWrappingTransparent ==
    /\ (last.op = "into_child" /\ last.input.kind = "FnMut") =>
            /\ last.child.tag = "Fn"
            /\ heap[last.child.cell].def = last.input.def
    /\ (last.op = "invoke" /\ last.ok) =>
            LET c == holders[last.a].child.cell
                r == IntoChild(LastRet(c), last.pre)
            IN  /\ last.child = r.child
                /\ \A k \in (Len(last.pre) + 1)..Len(heap) : heap[k] = r.heap[k]
    /\ (last.op = "as_child_string" /\ last.ok /\ last.child.tag = "Fn") =>
            LET r == IntoChild(LastRet(last.child.cell), last.pre)
            IN  last.str = AsChildString(r.child, r.heap, 0).str

ReactiveWrappingTransparentWitness ==
    /\ last.op = "as_child_string"
    /\ last.ok
    /\ last.child.tag = "Fn"
    /\ last.pre[last.child.cell].def = "hi"
    /\ last.pre[last.child.cell].calls = 0
    /\ last.str = <<"h", "i">>

\* C4: into_child(Some(x)) is into_child(x), into_child(None) is Null and
\* serializes to the empty string, and Some(None) converts to Null.
OptionComposes ==
    /\ (last.op = "into_child" /\ last.input.kind = "Some") =>
            LET r == IntoChild(last.input.val, last.pre)
            IN  /\ last.child = r.child
                /\ heap = r.heap
                /\ AsChildString(last.child, heap, 0).str
                        = AsChildString(r.child, r.heap, 0).str
    /\ (last.op = "into_child" /\ last.input \in {NoneSrc, SomeSrc(NoneSrc)}) =>
            /\ last.child = Null
            /\ heap = last.pre
    /\ (last.op = "as_child_string" /\ last.child = Null) => last.str = <<>>
    /\ holders = <<>> =>
            \A x \in ConvInputs :
                LET r == IntoChild(SomeSrc(x), heap)
                    q == IntoChild(x, heap)
                IN  /\ r = q
                    /\ Depth(x) = 0 =>
                            AsChildString(r.child, r.heap, 0).str = Denote(x)

OptionComposesWitness ==
    /\ last.op = "into_child"
    /\ last.input = SomeSrc(SomeSrc(FnSrc("hi")))
    /\ last.child.tag = "Fn"
    /\ Len(holders) = 2
    /\ holders[1].child = Null

\* reading a decimal string back
DigitVal(ch) == CHOOSE d \in 0..9 : DigitChar[d + 1] = ch

RECURSIVE ParseDigits(_)
ParseDigits(s) ==
    IF s = <<>> THEN 0
    ELSE 10 * ParseDigits(SubSeq(s, 1, Len(s) - 1)) + DigitVal(s[Len(s)])

ParseInt(s) ==
    IF s # <<>> /\ s[1] = "-" THEN 0 - ParseDigits(Tail(s)) ELSE ParseDigits(s)

PrimKinds == {"int", "char", "bool", "str"}

\* C5: a primitive converts to Text of its canonical string and serializes to
\* it, an owned String converts verbatim, and values with the same canonical
\* string convert to equal children.
PrimitivesConvertToText ==
    /\ (last.op = "into_child" /\ last.input.kind \in PrimKinds) =>
            /\ last.child = Text(Denote(last.input))
            /\ heap = last.pre
            /\ last.input.kind = "int" => ParseInt(last.child.text) = last.input.v
    /\ (last.op = "into_child" /\ last.input.kind = "String") =>
            last.child = Text(last.input.s)
    /\ (last.op = "as_child_string" /\ last.child.tag = "Text") =>
            last.str = last.child.text
    /\ holders = <<>> =>
            \A x \in PrimInputs :
                LET r == IntoChild(x, heap)
                IN  AsChildString(r.child, r.heap, 0).str = Denote(x)
    /\ \A i \in Held, j \in Held :
            (holders[i].child.tag = "Text" /\ holders[j].child.tag = "Text"
                /\ holders[i].child.text = holders[j].child.text) => Eq(i, j)

PrimitivesConvertToTextWitness ==
    /\ last.op = "into_child"
    /\ last.input = IntSrc("i8", -128)
    /\ last.child = Text(<<"-", "1", "2", "8">>)
    /\ Len(holders) = 2
    /\ holders[1].child = Text(<<"-", "1", "2", "8">>)
    /\ Eq(1, 2)

\* C6: equality of non-reactive children is structural and respects the
\* variant; a comparison across variants is false.
StructuralEq ==
    /\ \A i \in Held, j \in Held :
            (~IsFn(i) \/ ~IsFn(j)) =>
                (Eq(i, j) <=> holders[i].child = holders[j].child)
    /\ \A i \in Held, j \in Held :
            holders[i].child.tag # holders[j].child.tag => ~Eq(i, j)
    /\ last.op = "eq" => last.eq = Eq(last.a, last.b)

StructuralEqWitness ==
    /\ last.op = "eq"
    /\ holders[last.a].child = Text(<<>>)
    /\ holders[last.b].child = Nodes(<<>>)
    /\ ~last.eq
    /\ \E k \in Held : IsFn(k) /\ ~Eq(k, last.a)

\* the strings of a list joined front to back
RECURSIVE ConcatInOrder(_)
ConcatInOrder(ns) ==
    IF ns = <<>> THEN <<>>
    ELSE ConcatInOrder(SubSeq(ns, 1, Len(ns) - 1)) \o ns[Len(ns)]

\* C7: a sequence of nodes converts to Nodes holding the same nodes in the
\* same order, and a Nodes value serializes to their concatenation in order.
NodeListsKeepOrder ==
    /\ (last.op = "into_child" /\ last.input.kind = "Vec") =>
            /\ last.child.tag = "Nodes"
            /\ Len(last.child.nodes) = Len(last.input.ns)
            /\ \A k \in 1..Len(last.input.ns) : last.child.nodes[k] = last.input.ns[k]
    /\ (last.op = "as_child_string" /\ last.child.tag = "Nodes") =>
            /\ last.ok
            /\ last.str = ConcatInOrder(last.child.nodes)
            /\ last.child.nodes = <<<<"a">>, <<"b">>, <<"c">>>> => last.str = <<"a", "b", "c">>
            /\ last.child.nodes = <<>> => last.str = <<>>

NodeListsKeepOrderWitness ==
    /\ last.op = "as_child_string"
    /\ last.child = Nodes(<<<<"a">>, <<"b">>, <<"c">>>>)
    /\ last.str = <<"a", "b", "c">>

\* C8: serialization never fails, whatever the closures do when invoked.
SerializationTotal ==
    last.op = "as_child_string" => last.ok

\* C9: conversion does not call the callable; every invocation of the
\* reactive closure calls it exactly once; converting a value that is not a
\* callable invokes nothing.
ConversionDoesNotInvoke ==
    /\ \A c \in Cells : heap[c].calls = heap[c].invoked
    /\ last.op = "into_child" =>
            /\ \A c \in 1..Len(last.pre) : heap[c] = last.pre[c]
            /\ \A c \in (Len(last.pre) + 1)..Len(heap) :
                    heap[c].calls = 0 /\ heap[c].invoked = 0
            /\ Depth(last.input) = 0 => heap = last.pre
    /\ (last.op = "invoke" /\ last.ok) =>
            LET c == holders[last.a].child.cell
            IN  /\ heap[c].calls = last.pre[c].calls + 1
                /\ \A k \in 1..Len(last.pre) : k # c => heap[k] = last.pre[k]

ConversionDoesNotInvokeWitness ==
    /\ last.op = "into_child"
    /\ last.input.kind = "Some"
    /\ last.input.val.kind = "Child"
    /\ last.child.tag = "Fn"
    /\ heap[last.child.cell].invoked = 2

\* the holders that descend from the same conversion as holder i
Family(i) == {k \in Held : holders[k].src = holders[i].src}

\* the invocations made so far through the holders of i's family
FamilyCalls(i) ==
    Cardinality({p \in Cells \X (1..(MaxCalls + 1)) :
                    /\ p[2] <= Len(heap[p[1]].log)
                    /\ heap[p[1]].log[p[2]].by \in Family(i)})

\* C10: a reactive Child and its clones share one closure cell: the j-th
\* invocation made through any of them returns what the j-th call of the
\* wrapped callable returns.
ClonesShareState ==
    /\ \A i \in Held, k \in Held :
            (IsFn(i) /\ k \in Family(i)) =>
                holders[k].child = holders[i].child
    /\ (last.op = "invoke" /\ last.ok) =>
            LET c == holders[last.a].child.cell
                x == Behaviour(heap[c].def, FamilyCalls(last.a)).ret
            IN  last.child = IntoChild(x, last.pre).child
    /\ (last.op = "as_child_string" /\ last.ok /\ last.child.tag = "Fn") =>
            LET c == last.child.cell
            IN  last.str = Denote(Behaviour(heap[c].def, FamilyCalls(last.a)).ret)

ClonesShareStateWitness ==
    /\ last.op = "invoke"
    /\ last.ok
    /\ last.a = 1
    /\ \E c \in Cells :
            /\ heap[c].def = "counter"
            /\ Len(heap[c].log) = 3
            /\ heap[c].log[1].by = 1
            /\ heap[c].log[2].by = 2
            /\ heap[c].log[3].by = 1
            /\ heap[c].log[3].child = Text(<<"3">>)

====
